---- MODULE Spec2Model ----
(***************************************************************************)
(* Transaction Analyzer (calculate.py): one top-to-bottom execution of the *)
(* dashboard script.  The script imports the charting library, reads the   *)
(* uploaded workbook, drops incomplete rows, derives Year / Month /        *)
(* Month_Num, reads the three sidebar widgets, filters, shows three        *)
(* metrics, builds the pivot table with its Total column and draws two     *)
(* charts.  Every statement group of the script is one action; pc is the   *)
(* position of the script.                                                 *)
(*                                                                         *)
(* Encoding.  A spreadsheet cell and a table cell are optional values:     *)
(* <<>> is a blank cell / NaN and <<v>> is the value v.  A date is the     *)
(* pair <<year, month>> (no statement of the script looks at the day).     *)
(* Amounts are whole currency units.                                       *)
(***************************************************************************)
EXTENDS Integers, Sequences, FiniteSets

\* ---------------------------------------------------------------- state
VARIABLES
  pc,               \* the statement group the script runs next
  px,               \* TRUE iff the name px is bound (plotly.express imported)
  page,             \* the elements rendered so far, in order
  uploaded_file,    \* what st.file_uploader returned
  df,               \* the loaded frame with its derived columns
  selected_year,    \* <<year>>, or <<>> when the select box has no option
  df_year,
  selected_codes,
  month_map,
  selected_months,
  filtered_df,
  kpi,              \* the three metrics
  pivot,
  total_pivot,
  monthly_totals,
  code_totals

\* ---------------------------------------------------------------- bounds
\* Largest number of rows of an enumerated workbook.
MaxRows == 2

\* ---------------------------------------------------------------- domains
NaN == <<>>

Val(v) == <<v>>

\* Cells a workbook row can hold in each required column (first = blank).
DateCells == << <<>>, <<2024, 1>>, <<2024, 2>>, <<2023, 1>> >>

CodeCells == << <<>>, <<"A100">>, <<"B200">> >>

AmountCells == << <<>>, <<20>>, <<50>> >>

RequiredColumns == {"Transaction Date", "Account Code", "Base Amount"}

\* strftime('%b') of month number 1..12
MonthAbbr ==
  <<"Jan", "Feb", "Mar", "Apr", "May", "Jun",
    "Jul", "Aug", "Sep", "Oct", "Nov", "Dec">>

\* Python's string order on the month labels (pivot_table and groupby sort
\* their keys with it).
AlphaMonths ==
  <<"Apr", "Aug", "Dec", "Feb", "Jan", "Jul",
    "Jun", "Mar", "May", "Nov", "Oct", "Sep">>

\* Python's string order on the account codes of the model.
AlphaCodes == <<"A100", "B200">>

Range(s) == {s[i] : i \in 1..Len(s)}

RankIn(order) == [x \in Range(order) |-> CHOOSE i \in 1..Len(order) : order[i] = x]

\* ---------------------------------------------------------------- workbooks
NumRowKinds == Len(DateCells) * Len(CodeCells) * Len(AmountCells)

\* The k-th row of the enumeration of all rows over the cell domains.
RowOf(k) ==
  LET d == ((k - 1) % Len(DateCells)) + 1
      c == (((k - 1) \div Len(DateCells)) % Len(CodeCells)) + 1
      a == ((k - 1) \div (Len(DateCells) * Len(CodeCells))) + 1
  IN  [Transaction_Date |-> DateCells[d],
       Account_Code     |-> CodeCells[c],
       Base_Amount      |-> AmountCells[a]]

\* Row lists of n rows.  Only one order of each multiset of rows is
\* enumerated.
RowLists(n) ==
  { [i \in 1..n |-> RowOf(s[i])] :
      s \in { t \in [1..n -> 1..NumRowKinds] :
                \A i \in 1..n : \A j \in 1..n : i <= j => t[i] <= t[j] } }

Row(d, c, a) == [Transaction_Date |-> d, Account_Code |-> c, Base_Amount |-> a]

\* The three-row example of the specification's section 8.
ScenarioRows ==
  << Row(<<2024, 1>>, <<"A100">>, <<50>>),
     Row(<<2024, 2>>, <<"A100">>, <<30>>),
     Row(<<2024, 1>>, <<"B200">>, <<20>>) >>

\* One record in each of three months, for selections of three labels.
ThreeMonthRows ==
  << Row(<<2024, 1>>, <<"A100">>, <<50>>),
     Row(<<2024, 2>>, <<"B200">>, <<30>>),
     Row(<<2024, 3>>, <<"A100">>, <<20>>) >>

Workbook(sheet, cols, rows) == [has_sheet |-> sheet, columns |-> cols, rows |-> rows]

NoFile == Workbook(FALSE, {}, <<>>)

\* What the file uploader can hand to the script: a well-formed workbook
\* with any enumerated row list, a workbook without Sheet1, or a workbook
\* whose Sheet1 lacks some of the required columns.
Uploads ==
  { Workbook(TRUE, RequiredColumns, r) :
      r \in (UNION { RowLists(n) : n \in 0..MaxRows })
              \cup {ScenarioRows, ThreeMonthRows} }
  \cup { Workbook(FALSE, RequiredColumns, <<>>) }
  \cup { Workbook(TRUE, cols, <<>>) : cols \in (SUBSET RequiredColumns) \ {RequiredColumns} }

\* ---------------------------------------------------------------- helpers
\* sorted(S, key): the elements of S by ascending key (keys are distinct
\* wherever the script sorts).
RECURSIVE SortedBy(_, _)
SortedBy(S, key) ==
  IF S = {} THEN <<>>
  ELSE LET m == CHOOSE x \in S : \A y \in S : key[x] <= key[y]
       IN  <<m>> \o SortedBy(S \ {m}, key)

\* Series.sum(): 0 on an empty series.
RECURSIVE SumAmount(_)
SumAmount(rows) ==
  IF rows = <<>> THEN 0 ELSE Head(rows).Base_Amount + SumAmount(Tail(rows))

\* MeanAmount with an empty series averaged to 0.
MeanAmountZero(rows) ==
  IF Len(rows) = 0 THEN <<0, 1>> ELSE <<SumAmount(rows), Len(rows)>>

\* Series.mean(): NaN on an empty series, else sum / count, kept as the
\* exact fraction <<sum, count>>.
MeanAmount(rows) ==
  IF Len(rows) = 0 THEN NaN ELSE <<SumAmount(rows), Len(rows)>>

\* What st.multiselect can return: the chosen options, each once, in the
\* order the user chose them.
MultiSelect(options) ==
  { s \in UNION { [1..n -> Range(options)] : n \in 0..Len(options) } :
      \A i \in DOMAIN s : \A j \in DOMAIN s : i # j => s[i] # s[j] }

\* ---------------------------------------------------------------- Loader
\* df.dropna(subset=[...]): keep the rows with all three cells present.
DropNa(rows) ==
  SelectSeq(rows, LAMBDA r : /\ r.Transaction_Date # <<>>
                             /\ r.Account_Code # <<>>
                             /\ r.Base_Amount # <<>>)

\* to_datetime, .dt.year, .dt.strftime('%b'), .dt.month on one row.
Derive(r) ==
  [Year         |-> r.Transaction_Date[1],
   Month        |-> MonthAbbr[r.Transaction_Date[2]],
   Month_Num    |-> r.Transaction_Date[2],
   Account_Code |-> r.Account_Code[1],
   Base_Amount  |-> r.Base_Amount[1]]

\* LoadFrame with fillna(0) on the amount in place of dropping the row.
LoadFrameFillZero(rows) ==
  LET kept == SelectSeq(rows, LAMBDA r : /\ r.Transaction_Date # <<>>
                                         /\ r.Account_Code # <<>>)
  IN  [i \in 1..Len(kept) |->
         Derive([kept[i] EXCEPT !.Base_Amount =
                   IF @ = <<>> THEN <<0>> ELSE @])]

LoadFrame(rows) ==
  LET kept == DropNa(rows) IN [i \in 1..Len(kept) |-> Derive(kept[i])]

\* LoadError without the check of the required columns.
LoadErrorSheetOnly(file) ==
  IF ~file.has_sheet THEN "ValueError" ELSE ""

\* The exception the load raises, "" when it succeeds: read_excel raises
\* ValueError without Sheet1, dropna raises KeyError on a missing column.
LoadError(file) ==
  IF ~file.has_sheet THEN "ValueError"
  ELSE IF ~(RequiredColumns \subseteq file.columns) THEN "KeyError"
  ELSE ""

\* ---------------------------------------------------------------- sidebar
YearOptions(frame) ==
  LET ys == {frame[i].Year : i \in 1..Len(frame)}
  IN  SortedBy(ys, [y \in ys |-> 0 - y])

YearFrame(frame, year) ==
  SelectSeq(frame, LAMBDA r : <<r.Year>> = year)

AccountCodes(frame_year) ==
  LET cs == {frame_year[i].Account_Code : i \in 1..Len(frame_year)}
  IN  SortedBy(cs, [c \in cs |-> RankIn(AlphaCodes)[c]])

\* dict(zip(Month, Month_Num)): the last row of a label decides its number.
MonthMap(frame_year) ==
  LET ms == {frame_year[i].Month : i \in 1..Len(frame_year)}
  IN  [m \in ms |->
         LET last == CHOOSE i \in 1..Len(frame_year) :
                       /\ frame_year[i].Month = m
                       /\ \A j \in 1..Len(frame_year) :
                            frame_year[j].Month = m => j <= i
         IN  frame_year[last].Month_Num]

SortedMonths(frame_year) ==
  LET mm == MonthMap(frame_year) IN SortedBy(DOMAIN mm, mm)

\* ---------------------------------------------------------------- Filter
\* FilterFrame with the two masks joined by | in place of &.
FilterFrameEither(frame_year, codes, months) ==
  SelectSeq(frame_year, LAMBDA r : \/ r.Account_Code \in Range(codes)
                                   \/ r.Month \in Range(months))

FilterFrame(frame_year, codes, months) ==
  SelectSeq(frame_year, LAMBDA r : /\ r.Account_Code \in Range(codes)
                                   /\ r.Month \in Range(months))

\* CodeFrame with the month mask of the filter applied as well.
CodeFrameSelectedMonths(frame_year, codes) ==
  SelectSeq(frame_year, LAMBDA r : /\ r.Account_Code \in Range(codes)
                                   /\ r.Month \in Range(selected_months))

\* df_year[df_year['Account Code'].isin(selected_codes)]
CodeFrame(frame_year, codes) ==
  SelectSeq(frame_year, LAMBDA r : r.Account_Code \in Range(codes))

\* ---------------------------------------------------------------- Aggregator
Metrics(rows) ==
  [count |-> Len(rows), total |-> SumAmount(rows), avg |-> MeanAmount(rows)]

CodesOf(rows) == {rows[i].Account_Code : i \in 1..Len(rows)}

MonthsOf(rows) == {rows[i].Month : i \in 1..Len(rows)}

\* A table: row labels, column labels (both ordered) and the cells.
Table(idx, cols, cell) == [index |-> idx, columns |-> cols, cell |-> cell]

EmptyTable == Table(<<>>, <<>>, <<>>)

\* PivotTable without fill_value: a combination without a record is NaN.
PivotTableNoFill(rows) ==
  LET cs == CodesOf(rows)
      ms == MonthsOf(rows)
  IN  [index |-> SortedBy(cs, [c \in cs |-> RankIn(AlphaCodes)[c]]),
       columns |-> SortedBy(ms, [m \in ms |-> RankIn(AlphaMonths)[m]]),
       cell |-> [c \in cs |-> [m \in ms |->
                  IF \E i \in 1..Len(rows) :
                       rows[i].Account_Code = c /\ rows[i].Month = m
                  THEN Val(SumAmount(SelectSeq(rows, LAMBDA r :
                             r.Account_Code = c /\ r.Month = m)))
                  ELSE NaN]]]

\* pd.pivot_table(index='Account Code', columns='Month', aggfunc='sum',
\* fill_value=0): rows and columns are the labels present, both sorted as
\* strings; a combination without a record is filled with 0.
PivotTable(rows) ==
  LET cs == CodesOf(rows)
      ms == MonthsOf(rows)
  IN  Table(SortedBy(cs, [c \in cs |-> RankIn(AlphaCodes)[c]]),
            SortedBy(ms, [m \in ms |-> RankIn(AlphaMonths)[m]]),
            [c \in cs |-> [m \in ms |->
               Val(SumAmount(SelectSeq(rows, LAMBDA r :
                     r.Account_Code = c /\ r.Month = m)))]])

\* pivot.reindex(columns=cols, fill_value=fill)
ReindexColumns(t, cols, fill) ==
  Table(t.index, cols,
        [c \in Range(t.index) |-> [m \in Range(cols) |->
           IF m \in Range(t.columns) THEN t.cell[c][m] ELSE Val(fill)]])

\* pd.pivot_table(index='Account Code', values='Base Amount', aggfunc='sum'):
\* one 'Base Amount' column; pivot_table finishes with
\* dropna(how='all', axis=1), which on a table without rows drops every
\* column.
TotalPivot(rows) ==
  LET cs == CodesOf(rows)
  IN  Table(SortedBy(cs, [c \in cs |-> RankIn(AlphaCodes)[c]]),
            IF cs = {} THEN <<>> ELSE <<"Base Amount">>,
            [c \in cs |-> [m \in {"Base Amount"} |->
               Val(SumAmount(SelectSeq(rows, LAMBDA r : r.Account_Code = c)))]])

\* DataFrame._ensure_valid_index: a frame without rows that is assigned a
\* non-empty value takes the value's index; its existing columns are NaN.
EnsureValidIndex(t, value) ==
  IF Len(t.index) = 0 /\ Len(value.index) > 0
  THEN Table(value.index, t.columns,
             [c \in Range(value.index) |-> [m \in Range(t.columns) |-> NaN]])
  ELSE t

\* frame[key] = value with a DataFrame value raises ValueError when the
\* value has no column.
SetItemRaises(value) == Len(value.columns) = 0

\* frame[key] = value: the value's only column, aligned on the row labels,
\* becomes the new last column key.
SetItemFrame(t, key, value) ==
  LET u == EnsureValidIndex(t, value)
  IN  Table(u.index, Append(u.columns, key),
            [c \in Range(u.index) |-> [m \in Range(u.columns) \cup {key} |->
               IF m = key
               THEN IF c \in Range(value.index)
                    THEN value.cell[c][value.columns[1]] ELSE NaN
               ELSE u.cell[c][m]]])

\* groupby('Month').agg(sum), Month_Num mapped, sorted by Month_Num.
MonthlyTotals(rows, month_num) ==
  LET ms == MonthsOf(rows)
      by == SortedBy(ms, [m \in ms |-> month_num[m]])
  IN  [i \in 1..Len(by) |->
         [Month |-> by[i],
          Base_Amount |-> SumAmount(SelectSeq(rows, LAMBDA r : r.Month = by[i])),
          Month_Num |-> month_num[by[i]]]]

\* groupby('Account Code').agg(sum)
CodeTotals(rows) ==
  LET cs == CodesOf(rows)
      by == SortedBy(cs, [c \in cs |-> RankIn(AlphaCodes)[c]])
  IN  [i \in 1..Len(by) |->
         [Account_Code |-> by[i],
          Base_Amount |-> SumAmount(SelectSeq(rows, LAMBDA r : r.Account_Code = by[i]))]]

\* ---------------------------------------------------------------- script
vars ==
  <<pc, px, page, uploaded_file, df, selected_year, df_year, selected_codes,
    month_map, selected_months, filtered_df, kpi, pivot, total_pivot,
    monthly_totals, code_totals>>

NoMetrics == [count |-> 0, total |-> 0, avg |-> NaN]

Init ==
  /\ pc = "import"
  /\ px = FALSE
  /\ page = <<>>
  /\ uploaded_file = NoFile
  /\ df = <<>>
  /\ selected_year = <<>>
  /\ df_year = <<>>
  /\ selected_codes = <<>>
  /\ month_map = <<>>
  /\ selected_months = <<>>
  /\ filtered_df = <<>>
  /\ kpi = NoMetrics
  /\ pivot = EmptyTable
  /\ total_pivot = EmptyTable
  /\ monthly_totals = <<>>
  /\ code_totals = <<>>

\* What the except ModuleNotFoundError branch renders for each outcome of
\* `pip list`: plotly not listed, plotly listed, or pip failing.
Diagnostics(pip) ==
  <<"error: failed to import", "python version">>
  \o (IF pip = "not listed"
      THEN <<"installed packages", "error: plotly is not installed">>
      ELSE IF pip = "listed"
      THEN <<"installed packages", "plotly listed but import failed">>
      ELSE <<"error: failed to run pip list">>)
  \o <<"proceeding despite the error">>

\* An uncaught exception ends the script run; the framework renders it.
Raise(exc) ==
  /\ pc' = "aborted"
  /\ page' = Append(page, "exception: " \o exc)

\* try: import plotly, plotly.express as px / except ModuleNotFoundError
ImportPlotly ==
  /\ pc = "import"
  /\ \/ /\ px' = TRUE
        /\ page' = <<"success: plotly installed">>
     \/ \E pip \in {"not listed", "listed", "failed"} :
          /\ px' = FALSE
          /\ page' = Diagnostics(pip)
  /\ pc' = "upload"
  /\ UNCHANGED <<uploaded_file, df, selected_year, df_year, selected_codes,
                 month_map, selected_months, filtered_df, kpi, pivot,
                 total_pivot, monthly_totals, code_totals>>

\* Page header, requirements download and the file uploader; without a
\* file the script ends here.
Upload ==
  /\ pc = "upload"
  /\ \E f \in Uploads \cup {NoFile} :
       /\ uploaded_file' = f
       /\ pc' = IF f = NoFile THEN "done" ELSE "load"
  /\ page' = page \o <<"title", "download requirements", "file uploader">>
  /\ UNCHANGED <<px, df, selected_year, df_year, selected_codes, month_map,
                 selected_months, filtered_df, kpi, pivot, total_pivot,
                 monthly_totals, code_totals>>

\* read_excel, dropna and the date columns
Load ==
  /\ pc = "load"
  /\ IF LoadError(uploaded_file) # ""
     THEN /\ Raise(LoadError(uploaded_file))
          /\ UNCHANGED df
     ELSE /\ df' = LoadFrame(uploaded_file.rows)
          /\ pc' = "year"
          /\ UNCHANGED page
  /\ UNCHANGED <<px, uploaded_file, selected_year, df_year, selected_codes,
                 month_map, selected_months, filtered_df, kpi, pivot,
                 total_pivot, monthly_totals, code_totals>>

\* st.selectbox over the years, newest first, and df_year
SelectYear ==
  /\ pc = "year"
  /\ LET options == YearOptions(df)
     IN  \E y \in (IF options = <<>> THEN {<<>>}
                   ELSE {<<options[i]>> : i \in 1..Len(options)}) :
           /\ selected_year' = y
           /\ df_year' = YearFrame(df, y)
  /\ pc' = "codes"
  /\ page' = page \o <<"filters", "select year">>
  /\ UNCHANGED <<px, uploaded_file, df, selected_codes, month_map,
                 selected_months, filtered_df, kpi, pivot, total_pivot,
                 monthly_totals, code_totals>>

\* st.multiselect over the sorted account codes of the year
SelectCodes ==
  /\ pc = "codes"
  /\ selected_codes' \in MultiSelect(AccountCodes(df_year))
  /\ pc' = "months"
  /\ page' = Append(page, "select account codes")
  /\ UNCHANGED <<px, uploaded_file, df, selected_year, df_year, month_map,
                 selected_months, filtered_df, kpi, pivot, total_pivot,
                 monthly_totals, code_totals>>

\* month_map, sorted_months and st.multiselect over them
SelectMonths ==
  /\ pc = "months"
  /\ month_map' = MonthMap(df_year)
  /\ selected_months' \in MultiSelect(SortedMonths(df_year))
  /\ pc' = "filter"
  /\ page' = Append(page, "select months")
  /\ UNCHANGED <<px, uploaded_file, df, selected_year, df_year, selected_codes,
                 filtered_df, kpi, pivot, total_pivot, monthly_totals,
                 code_totals>>

\* filtered_df
Filter ==
  /\ pc = "filter"
  /\ filtered_df' = FilterFrame(df_year, selected_codes, selected_months)
  /\ pc' = "kpi"
  /\ UNCHANGED <<px, page, uploaded_file, df, selected_year, df_year,
                 selected_codes, month_map, selected_months, kpi, pivot,
                 total_pivot, monthly_totals, code_totals>>

\* the three st.metric calls
KPIs ==
  /\ pc = "kpi"
  /\ kpi' = Metrics(filtered_df)
  /\ pc' = "pivot"
  /\ page' = Append(page, "metrics")
  /\ UNCHANGED <<px, uploaded_file, df, selected_year, df_year, selected_codes,
                 month_map, selected_months, filtered_df, pivot, total_pivot,
                 monthly_totals, code_totals>>

\* pivot_table of the filtered rows, reindexed to the selected months
Pivot ==
  /\ pc = "pivot"
  /\ pivot' = ReindexColumns(PivotTable(filtered_df), selected_months, 0)
  /\ pc' = "total"
  /\ page' = Append(page, "pivot heading")
  /\ UNCHANGED <<px, uploaded_file, df, selected_year, df_year, selected_codes,
                 month_map, selected_months, filtered_df, kpi, total_pivot,
                 monthly_totals, code_totals>>

\* total_pivot, pivot['Total'] = total_pivot and st.dataframe
Total ==
  /\ pc = "total"
  /\ total_pivot' = TotalPivot(CodeFrame(df_year, selected_codes))
  /\ IF SetItemRaises(total_pivot')
     THEN /\ Raise("ValueError")
          /\ UNCHANGED pivot
     ELSE /\ pivot' = SetItemFrame(pivot, "Total", total_pivot')
          /\ pc' = "bar"
          /\ page' = Append(page, "pivot table")
  /\ UNCHANGED <<px, uploaded_file, df, selected_year, df_year, selected_codes,
                 month_map, selected_months, filtered_df, kpi, monthly_totals,
                 code_totals>>

\* px.<chart>(...) under try / except NameError: the chart when px is
\* bound, else the warning.
ChartOrWarning(bound, chart) ==
  IF bound THEN chart ELSE "warning: " \o chart \o " cannot be displayed"

\* monthly_totals and the bar chart
BarChart ==
  /\ pc = "bar"
  /\ monthly_totals' = MonthlyTotals(filtered_df, month_map)
  /\ page' = page \o <<"bar heading", ChartOrWarning(px, "bar chart")>>
  /\ pc' = "pie"
  /\ UNCHANGED <<px, uploaded_file, df, selected_year, df_year, selected_codes,
                 month_map, selected_months, filtered_df, kpi, pivot,
                 total_pivot, code_totals>>

\* code_totals and the pie chart
PieChart ==
  /\ pc = "pie"
  /\ code_totals' = CodeTotals(filtered_df)
  /\ page' = page \o <<"pie heading", ChartOrWarning(px, "pie chart")>>
  /\ pc' = "done"
  /\ UNCHANGED <<px, uploaded_file, df, selected_year, df_year, selected_codes,
                 month_map, selected_months, filtered_df, kpi, pivot,
                 total_pivot, monthly_totals>>

Next ==
  \/ ImportPlotly
  \/ Upload
  \/ Load
  \/ SelectYear
  \/ SelectCodes
  \/ SelectMonths
  \/ Filter
  \/ KPIs
  \/ Pivot
  \/ Total
  \/ BarChart
  \/ PieChart

Spec == Init /\ [][Next]_vars

\* ---------------------------------------------------------------- properties
Shown(element) == element \in Range(page)

WellFormed(file) == file.has_sheet /\ RequiredColumns \subseteq file.columns

\* The labels of S by month number, January first.
CalendarOrder(S) == SortedBy(S, [m \in S |-> RankIn(MonthAbbr)[m]])

\* The columns of the displayed pivot table before its last column, Total.
MonthColumns(t) == SubSeq(t.columns, 1, Len(t.columns) - 1)

Matching(rows, P(_)) == SumAmount(SelectSeq(rows, P))

\* C1: the month columns of the displayed pivot table are the selected
\* months in calendar order, whatever the order of selection.
C1_ColumnsInCalendarOrder ==
  Shown("pivot table") =>
    MonthColumns(pivot) = CalendarOrder(Range(selected_months))

\* C2: every row of the displayed pivot table is a selected account code and
\* its Total is the sum of the amounts of all loaded records of that code in
\* the selected year, over all months, selected or not.
C2_TotalIsYearSum ==
  Shown("pivot table") =>
    \A c \in Range(pivot.index) :
      /\ c \in Range(selected_codes)
      /\ pivot.cell[c]["Total"] =
           Val(Matching(df, LAMBDA r : <<r.Year>> = selected_year
                                       /\ r.Account_Code = c))

\* C2 witness: a displayed row whose Total counts a record of an unselected
\* month, while the frame also holds a record the Total leaves out.
C2_Witness ==
  /\ Shown("pivot table")
  /\ \E c \in Range(pivot.index) : \E i \in 1..Len(df_year) :
       /\ df_year[i].Account_Code = c
       /\ df_year[i].Month \notin Range(selected_months)
  /\ Len(CodeFrame(df_year, selected_codes)) < Len(df)

\* C3: for every account code of the filtered rows and every selected month
\* the pivot cell is the sum of the filtered amounts of that code and month,
\* 0 when there is none; the three-row example gives A100 50 / 30 / 80 and
\* B200 20 / 0 / 20.
C3_CellIsMonthSum ==
  Shown("pivot table") =>
    /\ \A c \in CodesOf(filtered_df) :
         /\ c \in Range(pivot.index)
         /\ \A m \in Range(selected_months) :
              /\ pivot.cell[c][m] =
                   Val(Matching(filtered_df, LAMBDA r : r.Account_Code = c
                                                        /\ r.Month = m))
              /\ (\A i \in 1..Len(filtered_df) :
                    ~(filtered_df[i].Account_Code = c /\ filtered_df[i].Month = m))
                 => pivot.cell[c][m] = Val(0)
    /\ ( /\ uploaded_file.rows = ScenarioRows
         /\ selected_year = <<2024>>
         /\ Range(selected_codes) = {"A100", "B200"}
         /\ selected_months = <<"Jan", "Feb">> )
       => /\ pivot.index = <<"A100", "B200">>
          /\ pivot.columns = <<"Jan", "Feb", "Total">>
          /\ pivot.cell["A100"]["Jan"] = Val(50)
          /\ pivot.cell["A100"]["Feb"] = Val(30)
          /\ pivot.cell["A100"]["Total"] = Val(80)
          /\ pivot.cell["B200"]["Jan"] = Val(20)
          /\ pivot.cell["B200"]["Feb"] = Val(0)
          /\ pivot.cell["B200"]["Total"] = Val(20)

\* C3 witness: the three-row example displayed, with its code and month
\* without a record.
C3_Witness ==
  /\ Shown("pivot table")
  /\ uploaded_file.rows = ScenarioRows
  /\ selected_year = <<2024>>
  /\ Range(selected_codes) = {"A100", "B200"}
  /\ selected_months = <<"Jan", "Feb">>
  /\ pivot.cell["B200"]["Feb"] = Val(0)

\* C4: with no filtered record the average shown is NaN, the count is 0, and
\* the metrics step hands over to the pivot step: a run that aborts after
\* the metrics aborts at a later step.
C4_EmptyAverageIsNaN ==
  /\ (Shown("metrics") /\ Len(filtered_df) = 0) => (kpi.avg = NaN /\ kpi.count = 0)
  /\ (Shown("metrics") /\ Len(filtered_df) > 0) => kpi.avg # NaN
  /\ (Shown("metrics") /\ pc = "aborted") => Shown("pivot heading")

\* C4 witness: the metrics of an empty filtered frame were shown and the
\* script went on.
C4_Witness ==
  /\ pc = "pivot"
  /\ Shown("metrics")
  /\ Len(filtered_df) = 0
  /\ Len(df_year) > 0
  /\ kpi.avg = NaN

\* C5: with none of the offered account codes selected the filtered frame is
\* empty, count and total are zero and no step of the run raises.
C5_NoCodesRunsWithoutError ==
  (Shown("select account codes") /\ selected_codes = <<>> /\ Len(df_year) > 0) =>
    /\ pc # "aborted"
    /\ Shown("metrics") =>
         (Len(filtered_df) = 0 /\ kpi.count = 0 /\ kpi.total = 0)

\* C6: when the workbook lacks Sheet1 or a required column the run ends with
\* the exception rendered as its last element, and no widget, metric, table
\* or chart of the later steps is rendered or computed.
C6_FormatErrorStopsRun ==
  ( /\ pc \notin {"import", "upload", "load"}
    /\ uploaded_file # NoFile
    /\ (~uploaded_file.has_sheet \/ uploaded_file.columns # RequiredColumns) )
  => /\ pc = "aborted"
     /\ page[Len(page)] \in {"exception: ValueError", "exception: KeyError"}
     /\ \A e \in {"filters", "select year", "select account codes",
                  "select months", "metrics", "pivot heading", "pivot table",
                  "bar heading", "bar chart", "pie heading", "pie chart"} :
          ~Shown(e)
     /\ df = <<>> /\ filtered_df = <<>> /\ kpi = NoMetrics /\ pivot = EmptyTable

\* C6 witness: a run stopped on a workbook whose sheet lacks Base Amount.
C6_Witness ==
  /\ pc = "aborted"
  /\ uploaded_file.has_sheet
  /\ "Base Amount" \notin uploaded_file.columns
  /\ Shown("exception: KeyError")

\* C7: when the charting library failed to import, diagnostics are shown,
\* each chart step that ran ended in its warning, and a run on a
\* well-formed workbook with a complete row is never aborted.
C7_RunReachesEndWithoutPlotly ==
  (pc # "import" /\ ~px) =>
    /\ Shown("error: failed to import")
    /\ Shown("bar heading") => Shown("warning: bar chart cannot be displayed")
    /\ Shown("pie heading") => Shown("warning: pie chart cannot be displayed")
    /\ (WellFormed(uploaded_file) /\ Len(df) > 0) => pc # "aborted"

\* C8: the filtered frame is exactly the loaded records of the selected
\* year, a selected code and a selected month, and filtering it again with
\* the same selections returns it unchanged.
C8_FilterExactAndIdempotent ==
  Shown("metrics") =>
    /\ filtered_df =
         SelectSeq(df, LAMBDA r : /\ <<r.Year>> = selected_year
                                  /\ r.Account_Code \in Range(selected_codes)
                                  /\ r.Month \in Range(selected_months))
    /\ \A i \in 1..Len(filtered_df) : \E j \in 1..Len(df) : filtered_df[i] = df[j]
    /\ Len(filtered_df) <= Len(df)
    /\ FilterFrame(YearFrame(filtered_df, selected_year),
                   selected_codes, selected_months) = filtered_df

\* C8 witness: a filter that kept one record and removed another.
C8_Witness ==
  /\ Shown("metrics")
  /\ Len(filtered_df) >= 1
  /\ Len(filtered_df) < Len(df)

Complete(r) ==
  r.Transaction_Date # <<>> /\ r.Account_Code # <<>> /\ r.Base_Amount # <<>>

Same(r, rec) ==
  /\ r.Transaction_Date = <<rec.Year, rec.Month_Num>>
  /\ r.Account_Code = <<rec.Account_Code>>
  /\ r.Base_Amount = <<rec.Base_Amount>>

\* C9: after a successful load the frame holds exactly the workbook rows
\* with all three cells present, each as often as the workbook holds it; a
\* row with a blank cell is in no frame, count or sum, and blank cells never
\* stop the run at the load.
C9_IncompleteRowsDropped ==
  LET rows == uploaded_file.rows
      complete == {i \in 1..Len(rows) : Complete(rows[i])}
  IN  /\ (pc \notin {"import", "upload", "load"} /\ WellFormed(uploaded_file)) =>
           /\ (pc = "aborted" => Shown("filters"))
           /\ Len(df) = Cardinality(complete)
           /\ \A i \in complete :
                Cardinality({j \in complete : rows[j] = rows[i]})
                  = Cardinality({k \in 1..Len(df) : Same(rows[i], df[k])})
           /\ \A k \in 1..Len(df) : \E i \in complete : Same(rows[i], df[k])
      /\ Shown("metrics") =>
           /\ kpi.count <= Cardinality(complete)
           /\ \A k \in 1..Len(filtered_df) :
                \E i \in complete : Same(rows[i], filtered_df[k])
           /\ (complete = {} => (kpi.count = 0 /\ kpi.total = 0))

\* C9 witness: a workbook with a complete row and a row that only lacks its
\* amount, past the metrics.
C9_Witness ==
  /\ Shown("metrics")
  /\ Len(df) = 1
  /\ \E i \in 1..Len(uploaded_file.rows) :
       /\ uploaded_file.rows[i].Base_Amount = <<>>
       /\ uploaded_file.rows[i].Transaction_Date # <<>>
       /\ uploaded_file.rows[i].Account_Code # <<>>

\* C10: the rows of the displayed pivot table are exactly the account codes
\* with a record among the filtered rows, and no row has an undefined Total.
C10_RowsAreFilteredCodes ==
  Shown("pivot table") =>
    /\ Range(pivot.index) = CodesOf(filtered_df)
    /\ \A c \in Range(pivot.index) : pivot.cell[c]["Total"] # NaN

====
